---- MODULE Spec2Model ----
(***************************************************************************)
(* A model of semchunk (src/src/semchunk/semchunk.py): the splitter        *)
(* selector _split_text, the merge engine merge_splits and the recursive   *)
(* orchestrator chunk with its two process-wide caches.                    *)
(*                                                                         *)
(* A text is a sequence of Unicode code points, so that Python's string    *)
(* comparison (code point by code point) and its slicing are what the      *)
(* operators below compute.  Indices of the source are 0-based; a TLA+     *)
(* sequence is 1-based, so the source's splits[i] is splits[i + 1] here.   *)
(***************************************************************************)
EXTENDS Integers, Sequences, FiniteSets, TLC

VARIABLES
    phase,                     \* "idle" | "running" | "returned" | "raised": the outermost chunk call
    args,                      \* the arguments of the outermost call
    stack,                     \* the call frames of chunk, outermost first
    outcome,                   \* what the outermost call returned or raised
    _memoised_token_counters,  \* line 9: token counter -> its memoised version (text -> count)
    chunk_cache,               \* line 137: cache(chunk), call arguments -> returned list
    history,                   \* the calls completed so far, in order, with their outcomes
    calls_left,                \* how many more calls the client makes
    scope,                     \* which input domain the client draws from
    unit                       \* a direct call of _split_text or merge_splits and its result

vars == <<phase, args, stack, outcome, _memoised_token_counters, chunk_cache,
          history, calls_left, scope, unit>>

(***************************************************************************)
(* Characters.                                                             *)
(***************************************************************************)
TAB == 9
LF == 10
FF == 12
CR == 13
SPACE == 32
COMMA == 44
FULL_STOP == 46
ELLIPSIS == 8230

\* The characters Python's \s matches in a str pattern (and str.isspace accepts).
Whitespace ==
    {9, 10, 11, 12, 13, 28, 29, 30, 31, 32, 133, 160, 5760} \cup (8192..8202)
        \cup {8232, 8233, 8239, 8287, 12288}

\* lines 12-17, in the tuple's order: . ? ! *  ; , ( ) [ ] “ ” ‘ ’ ' " `  : — …  / \ – & -
_NON_WHITESPACE_SEMANTIC_SPLITTERS ==
    << <<46>>, <<63>>, <<33>>, <<42>>,
       <<59>>, <<44>>, <<40>>, <<41>>, <<91>>, <<93>>, <<8220>>, <<8221>>, <<8216>>,
       <<8217>>, <<39>>, <<34>>, <<96>>,
       <<58>>, <<8212>>, <<8230>>,
       <<47>>, <<92>>, <<8211>>, <<38>>, <<45>> >>

(***************************************************************************)
(* Python's str and list operations used by the source.                    *)
(***************************************************************************)
Min(a, b) == IF a < b THEN a ELSE b
Max(a, b) == IF a < b THEN b ELSE a

\* c in text
Contains(text, c) == \E k \in 1..Len(text) : text[k] = c

\* seq[:k], with Python's reading of a negative k
Slice(seq, k) ==
    IF k >= 0 THEN SubSeq(seq, 1, Min(k, Len(seq)))
    ELSE SubSeq(seq, 1, Max(Len(seq) + k, 0))

\* seq[k:], k >= 0
Suffix(seq, k) == SubSeq(seq, k + 1, Len(seq))

\* a < b for two str: code point by code point, a proper prefix being smaller
RECURSIVE StrLess(_, _)
StrLess(a, b) ==
    IF b = <<>> THEN FALSE
    ELSE IF a = <<>> THEN TRUE
    ELSE IF Head(a) # Head(b) THEN Head(a) < Head(b)
    ELSE StrLess(Tail(a), Tail(b))

\* max(strs) of a non-empty list of str, without a key: the greatest by StrLess
RECURSIVE StrMax(_)
StrMax(strs) ==
    IF Len(strs) = 1 THEN strs[1]
    ELSE LET rest == StrMax(Tail(strs))
         IN IF StrLess(Head(strs), rest) THEN rest ELSE Head(strs)

\* the length of the run of characters of class that starts text
RECURSIVE RunLen(_, _)
RunLen(text, class) ==
    IF text = <<>> \/ Head(text) \notin class THEN 0
    ELSE 1 + RunLen(Tail(text), class)

\* re.findall(r'[class]+', text): the maximal runs of characters of class, left to right
RECURSIVE FindAll(_, _)
FindAll(class, text) ==
    IF text = <<>> THEN <<>>
    ELSE IF Head(text) \notin class THEN FindAll(class, Tail(text))
    ELSE LET n == RunLen(text, class)
         IN <<SubSeq(text, 1, n)>> \o FindAll(class, Suffix(text, n))

\* text.split(sep) for a non-empty sep: cut at each occurrence, leftmost first;
\* acc is the piece being read
RECURSIVE SplitFrom(_, _, _)
SplitFrom(text, sep, acc) ==
    IF Len(text) < Len(sep) THEN <<acc \o text>>
    ELSE IF SubSeq(text, 1, Len(sep)) = sep
         THEN <<acc>> \o SplitFrom(Suffix(text, Len(sep)), sep, <<>>)
    ELSE SplitFrom(Tail(text), sep, Append(acc, Head(text)))

Split(text, sep) == SplitFrom(text, sep, <<>>)

\* list(text)
Chars(text) == [k \in 1..Len(text) |-> <<text[k]>>]

\* sep.join(pieces)
RECURSIVE Join(_, _)
Join(sep, pieces) ==
    IF pieces = <<>> THEN <<>>
    ELSE IF Len(pieces) = 1 THEN pieces[1]
    ELSE pieces[1] \o sep \o Join(sep, Tail(pieces))

\* ''.join(chunks)
Concat(chunks) == Join(<<>>, chunks)

\* list(filter(None, chunks))
RECURSIVE FilterNonEmpty(_)
FilterNonEmpty(chunks) ==
    IF chunks = <<>> THEN <<>>
    ELSE IF Head(chunks) = <<>> THEN FilterNonEmpty(Tail(chunks))
    ELSE <<Head(chunks)>> \o FilterNonEmpty(Tail(chunks))

\* text with its whitespace characters deleted
RECURSIVE StripWhitespace(_)
StripWhitespace(text) ==
    IF text = <<>> THEN <<>>
    ELSE IF Head(text) \in Whitespace THEN StripWhitespace(Tail(text))
    ELSE <<Head(text)>> \o StripWhitespace(Tail(text))

(***************************************************************************)
(* _split_text, lines 20-51.                                               *)
(***************************************************************************)
\* lines 41-44: the first splitter of the tuple that occurs in text, from
\* position k on; 0 when none does (the for loop's else)
RECURSIVE FirstSplitter(_, _)
FirstSplitter(text, k) ==
    IF k > Len(_NON_WHITESPACE_SEMANTIC_SPLITTERS) THEN 0
    ELSE IF Contains(text, _NON_WHITESPACE_SEMANTIC_SPLITTERS[k][1]) THEN k
    ELSE FirstSplitter(text, k + 1)

_split_text(text) ==
    IF Contains(text, LF) \/ Contains(text, CR)
    THEN LET splitter == StrMax(FindAll({CR, LF}, text))
         IN [splitter |-> splitter, splitter_is_whitespace |-> TRUE,
             splits |-> Split(text, splitter)]
    ELSE IF Contains(text, TAB)
    THEN LET splitter == StrMax(FindAll({TAB}, text))
         IN [splitter |-> splitter, splitter_is_whitespace |-> TRUE,
             splits |-> Split(text, splitter)]
    ELSE IF \E k \in 1..Len(text) : text[k] \in Whitespace
    THEN LET splitter == StrMax(FindAll(Whitespace, text))
         IN [splitter |-> splitter, splitter_is_whitespace |-> TRUE,
             splits |-> Split(text, splitter)]
    ELSE LET k == FirstSplitter(text, 1)
         IN IF k = 0
            THEN [splitter |-> <<>>, splitter_is_whitespace |-> TRUE,
                  splits |-> Chars(text)]
            ELSE [splitter |-> _NON_WHITESPACE_SEMANTIC_SPLITTERS[k],
                  splitter_is_whitespace |-> FALSE,
                  splits |-> Split(text, _NON_WHITESPACE_SEMANTIC_SPLITTERS[k])]

(***************************************************************************)
(* Token counters.  A token counter is the caller's: the source only calls *)
(* it (lines 67, 109, 125) or wraps it in functools.cache (line 93).  The  *)
(* counters a client passes here are len, a word count, a UTF-8 byte       *)
(* count, and a value that is not callable.                                *)
(***************************************************************************)
Counters == {"chars", "words", "bytes", "none"}

Callable(id) == id # "none"

\* len(text.split()): the number of maximal runs of non-whitespace characters
RECURSIVE WordCount(_, _)
WordCount(text, in_word) ==
    IF text = <<>> THEN 0
    ELSE IF Head(text) \in Whitespace THEN WordCount(Tail(text), FALSE)
    ELSE (IF in_word THEN 0 ELSE 1) + WordCount(Tail(text), TRUE)

\* len(text.encode()): UTF-8 takes 1 to 4 bytes for a code point
RECURSIVE ByteCount(_)
ByteCount(text) ==
    IF text = <<>> THEN 0
    ELSE (IF Head(text) < 128 THEN 1 ELSE IF Head(text) < 2048 THEN 2
          ELSE IF Head(text) < 65536 THEN 3 ELSE 4) + ByteCount(Tail(text))

\* what the caller's counter itself returns for text
TokenCount(id, text) ==
    CASE id = "chars" -> Len(text)
      [] id = "words" -> WordCount(text, FALSE)
      [] id = "bytes" -> ByteCount(text)

\* A cache of functools.cache is a set of <<key, value>> pairs.
Cached(cache, key) == \E e \in cache : e[1] = key
Lookup(cache, key) == (CHOOSE e \in cache : e[1] = key)[2]

\* A lookup that ignores which counter a memoised version belongs to.
CountSharedCache(token_counter, text) ==
    LET all == UNION {_memoised_token_counters[c] : c \in DOMAIN _memoised_token_counters}
    IN IF token_counter.memoised /\ Cached(all, text) THEN Lookup(all, text)
       ELSE TokenCount(token_counter.id, text)

\* token_counter(text), lines 67, 109 and 125.  token_counter is the caller's
\* counter or, after line 93, its memoised version, which answers from its
\* cache when it holds text.
Count(token_counter, text) ==
    IF token_counter.memoised
       /\ token_counter.id \in DOMAIN _memoised_token_counters
       /\ Cached(_memoised_token_counters[token_counter.id], text)
    THEN Lookup(_memoised_token_counters[token_counter.id], text)
    ELSE TokenCount(token_counter.id, text)

(***************************************************************************)
(* merge_splits, lines 54-76.                                              *)
(***************************************************************************)
\* line 60: list(accumulate([len(split) for split in splits], initial=0))
RECURSIVE accumulate(_, _)
accumulate(splits, total) ==
    IF splits = <<>> THEN <<total>>
    ELSE <<total>> \o accumulate(Tail(splits), total + Len(Head(splits)))

\* bisect_left(a, x) of a sorted list of integers a and the number
\* x = x[1] / x[2], x[2] > 0: how many elements of a are less than x
bisect_left(a, x) == Cardinality({k \in 1..Len(a) : a[k] * x[2] < x[1]})

\* line 57: average = 0.2, as a fraction
InitialAverage == <<1, 5>>

\* lines 63-74: the while loop, s = [low, high, average, error, called]
RECURSIVE merge_search(_, _, _, _, _, _)
merge_search(splits, chunk_size, splitter, token_counter, cumulative_lengths, s) ==
    IF ~(s.low < s.high) THEN s
    ELSE
    LET i == bisect_left(SubSeq(cumulative_lengths, s.low + 1, s.high + 1),
                         <<chunk_size * s.average[1], s.average[2]>>)
        midpoint == Min(i + s.low, s.high - 1)
        text == Join(splitter, Slice(splits, midpoint))
        tokens == Count(token_counter, text)
        called == s.called \cup {text}
    IN  IF cumulative_lengths[midpoint + 1] # 0 /\ tokens = 0
        THEN [s EXCEPT !.error = "ZeroDivisionError", !.called = called]
        ELSE merge_search(splits, chunk_size, splitter, token_counter, cumulative_lengths,
                [low |-> IF tokens > chunk_size THEN s.low ELSE midpoint + 1,
                 high |-> IF tokens > chunk_size THEN midpoint ELSE s.high,
                 average |-> IF cumulative_lengths[midpoint + 1] # 0
                             THEN <<cumulative_lengths[midpoint + 1], tokens>>
                             ELSE s.average,
                 error |-> "none",
                 called |-> called])

\* lines 57-74: the state the while loop ends in
merge_while(splits, chunk_size, splitter, token_counter) ==
    LET lengths == accumulate(splits, 0)
        cumulative_lengths == Append(lengths, lengths[Len(lengths)])
    IN merge_search(splits, chunk_size, splitter, token_counter, cumulative_lengths,
            [low |-> 0, high |-> Len(splits) + 1, average |-> InitialAverage,
             error |-> "none", called |-> {}])

\* merge_splits with line 76 returning low instead of low - 1 as the index.
merge_splits_index_off_by_one(splits, chunk_size, splitter, token_counter) ==
    LET s == merge_while(splits, chunk_size, splitter, token_counter)
    IN  [error |-> s.error,
         index |-> s.low,
         chunk |-> IF s.error = "none" THEN Join(splitter, Slice(splits, s.low - 1)) ELSE <<>>,
         called |-> s.called]

\* merge_splits with line 76 joining the splits without the splitter.
merge_splits_joined_bare(splits, chunk_size, splitter, token_counter) ==
    LET s == merge_while(splits, chunk_size, splitter, token_counter)
    IN  [error |-> s.error,
         index |-> s.low - 1,
         chunk |-> IF s.error = "none" THEN Join(<<>>, Slice(splits, s.low - 1)) ELSE <<>>,
         called |-> s.called]

\* The result is [error, index, chunk, called]: the error raised ("none" when
\* the call returns), the returned pair (line 76), and the texts the counter
\* was called on.
merge_splits(splits, chunk_size, splitter, token_counter) ==
    LET s == merge_while(splits, chunk_size, splitter, token_counter)
    IN  [error |-> s.error,
         index |-> s.low - 1,
         chunk |-> IF s.error = "none" THEN Join(splitter, Slice(splits, s.low - 1)) ELSE <<>>,
         called |-> s.called]

(***************************************************************************)
(* chunk, lines 79-137.  One call of chunk is a frame; the frames of the   *)
(* recursion (line 110) are a stack.  A frame holds the locals of the      *)
(* call: text, _recursion_depth, the result of _split_text (line 96),      *)
(* chunks and skips (lines 98-99) and the loop index i (line 103).         *)
(* waiting says that the frame is inside the recursive call of line 110.   *)
(* units is a record of the loop's work, kept for the properties: for each *)
(* iteration that was not skipped, the pieces from..to it put into chunks  *)
(* and whether it recursed or merged.                                      *)
(***************************************************************************)
\* The deepest recursion the interpreter allows before it raises RecursionError.
RecursionLimit == 7

\* The token_counter of the running call and of its recursive calls: the
\* caller's counter or, when line 93 replaced it, its memoised version.
token_counter == [id |-> args.token_counter, memoised |-> args.memoize]

\* The key cache(chunk) files a call under (line 137).
CallKey(text, depth) == <<text, args.chunk_size, args.token_counter, args.memoize, depth>>

\* lines 96-99: the locals of a call that has just split its text
NewFrame(text, depth) ==
    LET r == _split_text(text)
    IN [text |-> text, _recursion_depth |-> depth,
        splitter |-> r.splitter, splitter_is_whitespace |-> r.splitter_is_whitespace,
        splits |-> r.splits, i |-> 0, skips |-> {}, chunks |-> <<>>,
        units |-> <<>>, waiting |-> FALSE]

\* The memoised version of the running call's counter, once the counter was
\* called on the texts of called: it keeps what the counter returned for each
\* text it did not hold.
Memoised(called) ==
    IF args.memoize /\ args.token_counter \in DOMAIN _memoised_token_counters
    THEN LET held == _memoised_token_counters[args.token_counter]
             new == {<<t, TokenCount(args.token_counter, t)>> :
                        t \in {u \in called : ~Cached(held, u)}}
         IN [_memoised_token_counters EXCEPT ![args.token_counter] = held \cup new]
    ELSE _memoised_token_counters

\* lines 124-128 without the count of line 125: the splitter always goes to
\* the end of the last chunk.
reattach_unchecked(f, chunks, skips) ==
    LET n == Len(f.splits)
    IN IF ~f.splitter_is_whitespace
          /\ ~(f.i = n - 1 \/ \A j \in (f.i + 1)..(n - 1) : j \in skips)
       THEN IF chunks = <<>>
            THEN [error |-> "IndexError", chunks |-> chunks, called |-> {}]
            ELSE [error |-> "none",
                  chunks |-> [chunks EXCEPT ![Len(chunks)] = @ \o f.splitter],
                  called |-> {}]
       ELSE [error |-> "none", chunks |-> chunks, called |-> {}]

\* lines 124-128 without lines 127-128: a splitter that does not fit is dropped.
reattach_dropping(f, chunks, skips) ==
    LET n == Len(f.splits)
    IN IF ~f.splitter_is_whitespace
          /\ ~(f.i = n - 1 \/ \A j \in (f.i + 1)..(n - 1) : j \in skips)
       THEN IF chunks = <<>>
            THEN [error |-> "IndexError", chunks |-> chunks, called |-> {}]
            ELSE LET last_chunk_with_splitter == chunks[Len(chunks)] \o f.splitter
                 IN IF Count(token_counter, last_chunk_with_splitter) <= args.chunk_size
                    THEN [error |-> "none",
                          chunks |-> [chunks EXCEPT ![Len(chunks)] = last_chunk_with_splitter],
                          called |-> {last_chunk_with_splitter}]
                    ELSE [error |-> "none", chunks |-> chunks,
                          called |-> {last_chunk_with_splitter}]
       ELSE [error |-> "none", chunks |-> chunks, called |-> {}]

\* lines 124-128 of iteration i, once chunks and skips are those of lines
\* 110 or 118-121: [error, chunks, called]
reattach(f, chunks, skips) ==
    LET n == Len(f.splits)
    IN IF ~f.splitter_is_whitespace
          /\ ~(f.i = n - 1 \/ \A j \in (f.i + 1)..(n - 1) : j \in skips)
       THEN IF chunks = <<>>
            THEN [error |-> "IndexError", chunks |-> chunks, called |-> {}]
            ELSE LET last_chunk_with_splitter == chunks[Len(chunks)] \o f.splitter
                 IN IF Count(token_counter, last_chunk_with_splitter) <= args.chunk_size
                    THEN [error |-> "none",
                          chunks |-> [chunks EXCEPT ![Len(chunks)] = last_chunk_with_splitter],
                          called |-> {last_chunk_with_splitter}]
                    ELSE [error |-> "none",
                          chunks |-> Append(chunks, f.splitter),
                          called |-> {last_chunk_with_splitter}]
       ELSE [error |-> "none", chunks |-> chunks, called |-> {}]

\* How many of the pieces splits[i], splits[i+1], ... the text chunk holds:
\* the largest m such that chunk is those m pieces joined by the splitter.
PiecesIn(f, chunk) ==
    LET fits == {m \in 0..(Len(f.splits) - f.i) :
                    Join(f.splitter, SubSeq(f.splits, f.i + 1, f.i + m)) = chunk}
    IN IF fits = {} THEN 0 ELSE CHOOSE m \in fits : \A k \in fits : k <= m

\* The outermost call, made with the arguments a, ends: it returns chunks or
\* raises error.
Ends(a, kind, chunks, error) ==
    LET out == [kind |-> kind, chunks |-> chunks, error |-> error]
    IN /\ phase' = kind
       /\ outcome' = out
       /\ stack' = <<>>
       /\ history' = Append(history, [args |-> a, outcome |-> out])

Raises(a, error) == Ends(a, "raised", <<>>, error)

\* The frame f, after its iteration i put sub_chunks of a recursive call into
\* chunks (line 110): lines 124-128 and the loop's next index.  The result is
\* [error, frame, called].
AfterRecursion(f, sub_chunks) ==
    LET chunks == f.chunks \o sub_chunks
        r == reattach(f, chunks, f.skips)
    IN [error |-> r.error,
        called |-> r.called,
        frame |-> [f EXCEPT !.chunks = r.chunks, !.i = f.i + 1, !.waiting = FALSE,
                            !.units = Append(@, [from |-> f.i, to |-> f.i, kind |-> "recursed"])]]

Top == stack[Len(stack)]
SetTop(f) == [stack EXCEPT ![Len(stack)] = f]

\* The client's inputs: one call over a wide range of texts and arguments
\* (scope "single"), or a session of several calls over a narrow one.
MaxLen == 4
MaxChunkSize == 2
SessionMaxLen == 3
SessionChunkSize == 1
MaxCalls == 3

\* a, é (two bytes in UTF-8), and the splitters of three of the selector's tiers
Alphabet == {97, 233, LF, SPACE, FULL_STOP, ELLIPSIS}
SessionAlphabet == {97, SPACE}

TextsOver(alphabet, n) == UNION {[1..k -> alphabet] : k \in 0..n}

Inputs ==
    IF scope = "single"
    THEN [text : TextsOver(Alphabet, MaxLen), chunk_size : 0..MaxChunkSize,
          token_counter : Counters, memoize : BOOLEAN, rechunk : {FALSE}]
    ELSE [text : TextsOver(SessionAlphabet, SessionMaxLen), chunk_size : 1..SessionChunkSize,
          token_counter : {"chars", "words"}, memoize : BOOLEAN, rechunk : {FALSE}]

\* A call of chunk from outside, through cache(chunk) (line 137) and, when the
\* call is not cached, lines 92-96.
Enter(a) ==
    /\ args' = a
    /\ UNCHANGED <<chunk_cache, scope, unit>>
    /\ LET key == <<a.text, a.chunk_size, a.token_counter, a.memoize, 0>>
       IN IF Cached(chunk_cache, key)
          THEN /\ Ends(a, "returned", Lookup(chunk_cache, key), "none")
               /\ UNCHANGED _memoised_token_counters
          ELSE IF a.memoize /\ ~Callable(a.token_counter)
          THEN \* line 93: cache(token_counter) refuses what is not callable
               /\ Raises(a, "TypeError")
               /\ UNCHANGED _memoised_token_counters
          ELSE /\ phase' = "running"
               /\ stack' = <<NewFrame(a.text, 0)>>
               /\ UNCHANGED <<outcome, history>>
               /\ _memoised_token_counters' =
                    IF a.memoize /\ a.token_counter \notin DOMAIN _memoised_token_counters
                    THEN [c \in DOMAIN _memoised_token_counters \cup {a.token_counter} |->
                            IF c = a.token_counter THEN {} ELSE _memoised_token_counters[c]]
                    ELSE _memoised_token_counters

\* The client calls chunk(text, chunk_size, token_counter, memoize).
Call ==
    /\ phase # "running"
    /\ calls_left > 0
    /\ calls_left' = calls_left - 1
    /\ \E a \in Inputs : Enter(a)

\* The client chunks the concatenation of the chunks it was just returned,
\* with the same chunk_size, token_counter and memoize.
Rechunk ==
    /\ phase = "returned"
    /\ ~args.rechunk
    /\ UNCHANGED calls_left
    /\ Enter([args EXCEPT !.text = Concat(outcome.chunks), !.rechunk = TRUE])

\* lines 105-106: the split was put into a chunk by an earlier merge
Skip ==
    /\ phase = "running"
    /\ ~Top.waiting /\ Top.i < Len(Top.splits) /\ Top.i \in Top.skips
    /\ stack' = SetTop([Top EXCEPT !.i = @ + 1])
    /\ UNCHANGED <<phase, args, outcome, _memoised_token_counters, chunk_cache, history,
                   calls_left, scope, unit>>

\* line 109 with a token_counter that is not callable
NotCallable ==
    /\ phase = "running"
    /\ ~Top.waiting /\ Top.i < Len(Top.splits) /\ Top.i \notin Top.skips
    /\ ~Callable(args.token_counter)
    /\ Raises(args, "TypeError")
    /\ UNCHANGED <<args, _memoised_token_counters, chunk_cache, calls_left, scope, unit>>

\* lines 109-110 and, when cache(chunk) holds the recursive call, 124-128
Recurse ==
    /\ phase = "running"
    /\ ~Top.waiting /\ Top.i < Len(Top.splits) /\ Top.i \notin Top.skips
    /\ Callable(args.token_counter)
    /\ LET f == Top
           split == f.splits[f.i + 1]
           key == CallKey(split, f._recursion_depth + 1)
       IN /\ Count(token_counter, split) > args.chunk_size
          /\ IF Cached(chunk_cache, key)
             THEN LET r == AfterRecursion(f, Lookup(chunk_cache, key))
                  IN /\ _memoised_token_counters' = Memoised({split} \cup r.called)
                     /\ IF r.error # "none"
                        THEN Raises(args, r.error)
                        ELSE /\ stack' = SetTop(r.frame)
                             /\ UNCHANGED <<phase, outcome, history>>
             ELSE /\ _memoised_token_counters' = Memoised({split})
                  /\ IF Len(stack) + 1 > RecursionLimit
                     THEN Raises(args, "RecursionError")
                     ELSE /\ stack' = Append(SetTop([f EXCEPT !.waiting = TRUE]),
                                             NewFrame(split, f._recursion_depth + 1))
                          /\ UNCHANGED <<phase, outcome, history>>
    /\ UNCHANGED <<args, chunk_cache, calls_left, scope, unit>>

\* lines 109 and 115-128
Merge ==
    /\ phase = "running"
    /\ ~Top.waiting /\ Top.i < Len(Top.splits) /\ Top.i \notin Top.skips
    /\ Callable(args.token_counter)
    /\ LET f == Top
           split == f.splits[f.i + 1]
           m == merge_splits(Suffix(f.splits, f.i), args.chunk_size, f.splitter, token_counter)
           final_split_in_chunk_i == m.index
           new_chunk == m.chunk
           skips == f.skips \cup ((f.i + 1)..(f.i + final_split_in_chunk_i - 1))
           r == reattach(f, Append(f.chunks, new_chunk), skips)
           count == PiecesIn(f, new_chunk)
       IN /\ Count(token_counter, split) <= args.chunk_size
          /\ IF m.error # "none"
             THEN /\ _memoised_token_counters' = Memoised({split} \cup m.called)
                  /\ Raises(args, m.error)
             ELSE /\ _memoised_token_counters' = Memoised({split} \cup m.called \cup r.called)
                  /\ stack' = SetTop([f EXCEPT
                        !.skips = skips, !.chunks = r.chunks, !.i = f.i + 1,
                        !.units = Append(@, [from |-> f.i, to |-> f.i + count - 1,
                                             kind |-> "merged"])])
                  /\ UNCHANGED <<phase, outcome, history>>
    /\ UNCHANGED <<args, chunk_cache, calls_left, scope, unit>>

\* lines 131-134 and line 137; in the caller, the rest of its iteration
\* (lines 110 and 124-128)
Return ==
    /\ phase = "running"
    /\ ~Top.waiting /\ Top.i = Len(Top.splits)
    /\ LET f == Top
           chunks == IF f._recursion_depth = 0 THEN FilterNonEmpty(f.chunks) ELSE f.chunks
       IN /\ chunk_cache' = chunk_cache \cup {<<CallKey(f.text, f._recursion_depth), chunks>>}
          /\ IF Len(stack) = 1
             THEN /\ Ends(args, "returned", chunks, "none")
                  /\ UNCHANGED _memoised_token_counters
             ELSE LET r == AfterRecursion(stack[Len(stack) - 1], chunks)
                  IN /\ _memoised_token_counters' = Memoised(r.called)
                     /\ IF r.error # "none"
                        THEN Raises(args, r.error)
                        ELSE /\ stack' = Append(SubSeq(stack, 1, Len(stack) - 2), r.frame)
                             /\ UNCHANGED <<phase, outcome, history>>
    /\ UNCHANGED <<args, calls_left, scope, unit>>

NoCall == [text |-> <<>>, chunk_size |-> 1, token_counter |-> "chars", memoize |-> FALSE,
           rechunk |-> FALSE]
NoOutcome == [kind |-> "none", chunks |-> <<>>, error |-> "none"]
NoUnit == [op |-> "none"]

Init ==
    /\ phase = "idle"
    /\ args = NoCall
    /\ stack = <<>>
    /\ outcome = NoOutcome
    /\ _memoised_token_counters = [c \in {} |-> {}]
    /\ chunk_cache = {}
    /\ history = <<>>
    /\ calls_left = 1
    /\ scope = "single"
    /\ unit = NoUnit

Next == Call \/ Rechunk \/ Skip \/ NotCallable \/ Recurse \/ Merge \/ Return

\* One call of chunk, and a second one on the concatenation of its chunks.
Spec == Init /\ [][Next]_vars

\* A session of MaxCalls calls of chunk, the caches being kept from call to call.
InitSession ==
    /\ phase = "idle"
    /\ args = NoCall
    /\ stack = <<>>
    /\ outcome = NoOutcome
    /\ _memoised_token_counters = [c \in {} |-> {}]
    /\ chunk_cache = {}
    /\ history = <<>>
    /\ calls_left = MaxCalls
    /\ scope = "session"
    /\ unit = NoUnit

NextSession == Call \/ Skip \/ Recurse \/ Merge \/ Return

SpecSession == InitSession /\ [][NextSession]_vars

(***************************************************************************)
(* _split_text and merge_splits called on their own.                       *)
(***************************************************************************)
SplitMaxLen == 4
SplitAlphabet == {97, LF, CR, TAB, SPACE, FF, FULL_STOP, COMMA}

MergeMaxPieces == 4
MergeMaxChunkSize == 3
MergePieces == TextsOver({97, SPACE}, 2)
MergeSplitters == {<<>>, <<SPACE>>, <<LF>>, <<FULL_STOP>>}

NoSplitResult == [splitter |-> <<>>, splitter_is_whitespace |-> TRUE, splits |-> <<>>]
NoMergeResult == [error |-> "none", index |-> 0, chunk |-> <<>>, called |-> {}]

Idle ==
    /\ phase = "idle"
    /\ args = NoCall
    /\ stack = <<>>
    /\ outcome = NoOutcome
    /\ _memoised_token_counters = [c \in {} |-> {}]
    /\ chunk_cache = {}
    /\ history = <<>>
    /\ calls_left = 0
    /\ scope = "unit"

InitSplit ==
    /\ Idle
    /\ \E text \in TextsOver(SplitAlphabet, SplitMaxLen) :
          unit = [op |-> "_split_text", text |-> text, done |-> FALSE,
                  result |-> NoSplitResult]

SplitText ==
    /\ unit.op = "_split_text" /\ ~unit.done
    /\ unit' = [unit EXCEPT !.done = TRUE, !.result = _split_text(unit.text)]
    /\ UNCHANGED <<phase, args, stack, outcome, _memoised_token_counters, chunk_cache,
                   history, calls_left, scope>>

SpecSplit == InitSplit /\ [][SplitText]_vars

InitMerge ==
    /\ Idle
    /\ \E n \in 0..MergeMaxPieces :
       \E splits \in [1..n -> MergePieces], chunk_size \in 1..MergeMaxChunkSize,
          splitter \in MergeSplitters, id \in {"chars", "words", "bytes"} :
          unit = [op |-> "merge_splits", splits |-> splits, chunk_size |-> chunk_size,
                  splitter |-> splitter, token_counter |-> [id |-> id, memoised |-> FALSE],
                  done |-> FALSE, result |-> NoMergeResult]

MergeSplits ==
    /\ unit.op = "merge_splits" /\ ~unit.done
    /\ unit' = [unit EXCEPT !.done = TRUE,
                            !.result = merge_splits(unit.splits, unit.chunk_size,
                                                    unit.splitter, unit.token_counter)]
    /\ UNCHANGED <<phase, args, stack, outcome, _memoised_token_counters, chunk_cache,
                   history, calls_left, scope>>

SpecMerge == InitMerge /\ [][MergeSplits]_vars

(***************************************************************************)
(* Properties.                                                             *)
(***************************************************************************)
\* The running or completed call has a valid configuration.
ValidCall == args.chunk_size >= 1 /\ Callable(args.token_counter)

Returned == phase = "returned"

\* chunk is within the budget, or is a single character (a delimiter emitted
\* on its own is one character: every non-whitespace splitter is).
WithinBudget(chunk) ==
    \/ TokenCount(args.token_counter, chunk) <= args.chunk_size
    \/ Len(chunk) = 1

\* C1: with chunk_size >= 1 and a pure counter, every chunk of the returned
\* sequence, and every chunk a frame holds on the way (merged, come back from a
\* recursive call, or with the splitter appended), has a token count of at most
\* chunk_size, unless it is a single character.
C1_BudgetInvariant ==
    ValidCall =>
        /\ \A k \in 1..Len(stack) : \A c \in 1..Len(stack[k].chunks) :
              WithinBudget(stack[k].chunks[c])
        /\ Returned => \A c \in 1..Len(outcome.chunks) : WithinBudget(outcome.chunks[c])

\* A call returned a chunk that fills the budget with a delimiter appended to
\* it, after another chunk, and a delimiter on its own that is over the budget.
C1_Witness ==
    /\ Returned /\ ValidCall
    /\ \E c \in 2..Len(outcome.chunks) :
          LET chunk == outcome.chunks[c]
          IN /\ Len(chunk) >= 2
             /\ chunk[Len(chunk)] = FULL_STOP
             /\ TokenCount(args.token_counter, chunk) = args.chunk_size
    /\ \E c \in 1..Len(outcome.chunks) :
          /\ outcome.chunks[c] = <<ELLIPSIS>>
          /\ TokenCount(args.token_counter, outcome.chunks[c]) > args.chunk_size

\* C2: with chunk_size >= 1, the recursion is never deeper than the text is
\* long, no call recurses on the fragment it was itself given, and the call does
\* not end in a RecursionError.
C2_BoundedRecursion ==
    ValidCall =>
        /\ \A k \in 1..Len(stack) : stack[k]._recursion_depth <= Len(args.text)
        /\ \A k \in 1..(Len(stack) - 1) : stack[k + 1].text # stack[k].text
        /\ ~(phase = "raised" /\ outcome.error = "RecursionError")

\* C3: with chunk_size >= 1 and a pure counter, the returned chunks,
\* concatenated, are the text up to whitespace, and are the text itself when
\* the text holds no whitespace.
C3_Reconstruction ==
    (Returned /\ ValidCall) =>
        /\ StripWhitespace(Concat(outcome.chunks)) = StripWhitespace(args.text)
        /\ StripWhitespace(args.text) = args.text => Concat(outcome.chunks) = args.text

\* A call returned several chunks of a text that holds whitespace, a
\* punctuation delimiter and a piece that was split into characters.
C3_Witness ==
    /\ Returned /\ ValidCall
    /\ Len(outcome.chunks) >= 3
    /\ Contains(args.text, SPACE) /\ Contains(args.text, FULL_STOP)
    /\ Concat(outcome.chunks) # args.text
    /\ \E c \in 1..Len(outcome.chunks) : outcome.chunks[c] = <<FULL_STOP>>

\* C4: a call with chunk_size <= 0 or a counter that is not callable never
\* returns and never gets to split its text (no frame of it ever exists).
C4_FailsFast ==
    (phase # "idle" /\ ~ValidCall) => (phase = "raised" /\ stack = <<>>)

\* C5: two calls of a session with the same text, chunk_size and (pure)
\* counter have the same outcome, whatever memoize is and whatever the caches
\* held; every cached token count is what the counter returns for that text.
C5_Deterministic ==
    /\ \A i \in 1..Len(history) : \A j \in 1..Len(history) :
          LET a == history[i].args
              b == history[j].args
          IN (/\ a.text = b.text /\ a.chunk_size = b.chunk_size
              /\ a.token_counter = b.token_counter /\ Callable(a.token_counter))
             => history[i].outcome = history[j].outcome
    /\ \A c \in DOMAIN _memoised_token_counters :
          \A e \in _memoised_token_counters[c] : e[2] = TokenCount(c, e[1])

\* A session of three calls: a call without memoisation, a memoised call with
\* another counter on the same text, and the first call again, memoised, which
\* returns several chunks on which the two counters disagree.
C5_Witness ==
    /\ Len(history) = 3
    /\ history[1].args.text = history[3].args.text
    /\ history[2].args.text = history[3].args.text
    /\ history[1].args.token_counter = history[3].args.token_counter
    /\ history[2].args.token_counter # history[3].args.token_counter
    /\ ~history[1].args.memoize /\ history[2].args.memoize /\ history[3].args.memoize
    /\ history[3].outcome.kind = "returned"
    /\ Len(history[3].outcome.chunks) >= 2
    /\ history[2].outcome # history[3].outcome

\* The client's first call returned and so did its call on the concatenation.
Rechunked ==
    /\ Len(history) = 2
    /\ history[2].args.rechunk
    /\ history[2].outcome.kind = "returned"
    /\ history[1].args.chunk_size >= 1

LongestRuns(class, text) ==
    LET runs == FindAll(class, text)
    IN {runs[k] : k \in {j \in 1..Len(runs) : \A h \in 1..Len(runs) : Len(runs[h]) <= Len(runs[j])}}

\* C7: _split_text picks the longest run of newlines and carriage returns if
\* the text holds any, else the longest run of tabs, else the longest run of
\* whitespace, else the first listed punctuation present (not a whitespace
\* splitter), else the empty splitter with the characters as pieces; joining
\* the pieces with the splitter gives the text back.
C7_SplitterByPriorityAndLength ==
    (unit.op = "_split_text" /\ unit.done) =>
        LET text == unit.text
            r == unit.result
            Has(class) == \E k \in 1..Len(text) : text[k] \in class
            present == {p \in 1..Len(_NON_WHITESPACE_SEMANTIC_SPLITTERS) :
                           Has({_NON_WHITESPACE_SEMANTIC_SPLITTERS[p][1]})}
        IN /\ Join(r.splitter, r.splits) = text
           /\ IF Has({LF, CR})
              THEN r.splitter \in LongestRuns({LF, CR}, text) /\ r.splitter_is_whitespace
              ELSE IF Has({TAB})
              THEN r.splitter \in LongestRuns({TAB}, text) /\ r.splitter_is_whitespace
              ELSE IF Has(Whitespace)
              THEN r.splitter \in LongestRuns(Whitespace, text) /\ r.splitter_is_whitespace
              ELSE IF present # {}
              THEN /\ \E p \in present :
                        /\ \A q \in present : p <= q
                        /\ r.splitter = _NON_WHITESPACE_SEMANTIC_SPLITTERS[p]
                   /\ ~r.splitter_is_whitespace
              ELSE r.splitter = <<>> /\ r.splits = Chars(text)

\* The token count of the first k pieces of the merge call, joined.
PrefixCount(k) ==
    TokenCount(unit.token_counter.id, Join(unit.splitter, SubSeq(unit.splits, 1, k)))

\* C8: for a counter whose count of the joined prefix never decreases,
\* merge_splits returns k - 1 and the first k pieces joined, k being the
\* largest number of pieces whose joined count is within chunk_size.
C8_LargestPrefix ==
    (/\ unit.op = "merge_splits" /\ unit.done
     /\ \A k \in 0..(Len(unit.splits) - 1) : PrefixCount(k) <= PrefixCount(k + 1))
    => LET fits == {k \in 0..Len(unit.splits) : PrefixCount(k) <= unit.chunk_size}
           k == CHOOSE m \in fits : \A h \in fits : h <= m
       IN /\ unit.result.error = "none"
          /\ unit.result.index = k - 1
          /\ unit.result.chunk = Join(unit.splitter, SubSeq(unit.splits, 1, k))

\* C9: when the first piece alone is over chunk_size, merge_splits returns
\* index 0 and the first piece as the merged text.
C9_AtLeastOnePiece ==
    (/\ unit.op = "merge_splits" /\ unit.done
     /\ unit.splits # <<>>
     /\ TokenCount(unit.token_counter.id, unit.splits[1]) > unit.chunk_size)
    => /\ unit.result.error = "none"
       /\ unit.result.index = 0
       /\ unit.result.chunk = unit.splits[1]

\* The indices the merges recorded in units put into the skip set.
SkippedBy(units) ==
    UNION {(units[u].from + 1)..units[u].to :
              u \in {v \in 1..Len(units) : units[v].kind = "merged"}}

\* The frame f has consumed its pieces once each and in order: the iterations
\* that were not skipped took the pieces 0, 1, 2, ... in consecutive ranges, a
\* recursion one piece that is over the budget, a merge one piece or more; the
\* loop is at the first piece not yet taken, or at one the skip set holds; and
\* when the loop ends every piece was taken.
ConsumesInOrder(f) ==
    LET n == Len(f.splits)
        u == f.units
        last == IF u = <<>> THEN -1 ELSE u[Len(u)].to
    IN /\ \A k \in 1..Len(u) :
             /\ u[k].from = (IF k = 1 THEN 0 ELSE u[k - 1].to + 1)
             /\ u[k].from <= u[k].to
             /\ u[k].to <= n - 1
             /\ u[k].kind = "recursed" =>
                   /\ u[k].to = u[k].from
                   /\ TokenCount(args.token_counter, f.splits[u[k].from + 1]) > args.chunk_size
             /\ u[k].kind = "merged" =>
                   TokenCount(args.token_counter, f.splits[u[k].from + 1]) <= args.chunk_size
       /\ f.i <= last + 1
       /\ (f.i < n /\ f.i \notin f.skips) => f.i = last + 1
       /\ f.i = n => last = n - 1

\* C10 as stated: every frame consumes its pieces once each and in order, and
\* after a merge that took the pieces i..j the skip set is exactly i+1..j.
C10_SkipSetIsLastMerge ==
    \A k \in 1..Len(stack) :
        LET f == stack[k]
            u == f.units
        IN /\ ConsumesInOrder(f)
           /\ (u # <<>> /\ u[Len(u)].kind = "merged") =>
                 f.skips = (u[Len(u)].from + 1)..u[Len(u)].to

\* C10, amended: every frame consumes its pieces once each and in order, and
\* the skip set holds exactly, for each merge done so far that took the pieces
\* i..j, the indices i+1..j.
C10_ConsumedOnceInOrder ==
    \A k \in 1..Len(stack) :
        /\ ConsumesInOrder(stack[k])
        /\ stack[k].skips = SkippedBy(stack[k].units)

\* A frame at the end of its loop that merged several pieces into one chunk,
\* skipped them, and recursed into another piece.
C10_Witness ==
    \E k \in 1..Len(stack) :
        LET f == stack[k]
        IN /\ f.i = Len(f.splits)
           /\ f.skips # {}
           /\ \E a \in 1..Len(f.units) : \E b \in 1..Len(f.units) :
                 /\ f.units[a].kind = "merged" /\ f.units[a].to > f.units[a].from
                 /\ f.units[b].kind = "recursed"

====
